---- MODULE Spec2Model ----
(***************************************************************************)
(* Model of lunar_lander_cyberpunk.py: the Lander (physics, fuel, status   *)
(* state machine, particles), the LandingPad, and the part of run_game's   *)
(* frame loop that changes state (clock tick, events, handle_input,        *)
(* update, check_landing, pad update, thrust sound).  Drawing is left out: *)
(* it reads the state and changes none of it except the starfield.         *)
(*                                                                         *)
(* Numbers are fixed point, so that every float operation of the source    *)
(* is an exact integer operation here:                                     *)
(*   time      in ticks of 1/TicksPerSecond s   (dt, timers, lifetimes)    *)
(*   angle     in 1/AngleScale degree                                      *)
(*   fuel      in 1/FuelScale unit                                         *)
(*   accel.    in 1/AccScale px/s^2                                        *)
(*   velocity  in 1/VelScale px/s     (VelScale = AccScale*TicksPerSecond) *)
(*   position  in 1/PosScale px       (PosScale = VelScale*TicksPerSecond) *)
(***************************************************************************)
EXTENDS Integers, Sequences, FiniteSets, TLC

VARIABLES
    pc,                 \* position of run_game's loop body
    dt,                 \* this frame's dt (run_game local)
    position,           \* Lander.position  [x, y]
    velocity,           \* Lander.velocity  [x, y]
    angle,              \* Lander.angle
    fuel,               \* Lander.fuel
    thrusting,          \* Lander.thrusting
    particles,          \* Lander.particles: sequence of Particle
    status,             \* Lander.status
    status_timer,       \* Lander.status_timer
    landing_pad,        \* run_game's landing_pad: [rect, timer]
    thruster_sound,     \* run_game's thruster_sound: TRUE = a Sound, FALSE = None
    thruster_channel,   \* run_game's thruster_channel: "None" or "Channel"
    mixer_loops,        \* mixer channels on which the loop was started by
                        \* play(loops=-1) and not yet stopped by fadeout(120)
    spawned,            \* history: particles emitted in this episode
    expired,            \* history: emitted particles dropped from the ledger
    ledger,             \* history: emitted particles not yet dropped
    full_burn           \* history: every update of the episode thrust at angle 0

vars == <<pc, dt, position, velocity, angle, fuel, thrusting, particles, status,
          status_timer, landing_pad, thruster_sound, thruster_channel,
          mixer_loops, spawned, expired, ledger, full_burn>>

lander == <<position, velocity, angle, fuel, thrusting, particles, status,
            status_timer>>

history == <<spawned, expired, ledger, full_burn>>

-----------------------------------------------------------------------------
(* Fixed-point resolutions *)

TicksPerSecond == 100
AngleScale == 10
AccScale == 10
FuelScale == TicksPerSecond
VelScale == AccScale * TicksPerSecond
PosScale == VelScale * TicksPerSecond

(* GameConfig *)

screen_width == 960
screen_height == 720
gravity == 36
thrust_force == 120
fuel_capacity == 100
fuel_burn_rate == 22
rotation_speed == 90
landing_pad_width == 160
landing_pad_height == 12
max_landing_speed == 42
max_horizontal_speed == 32
max_landing_angle == 12

(* Literals of the Lander and of run_game *)

start_x == screen_width \div 2
start_y == 140
lander_box == 42
pad_margin == 40
edge_margin == 40
bottom_margin == 80
inflate_x == 40
inflate_y == 12
particles_per_emit == 3
lifetime_min == 30
lifetime_max == 60

-----------------------------------------------------------------------------
(* Bounds of the model *)

\* frames run after a terminal status until status_timer reaches this (ticks)
MaxStatusTimer == 100
\* in Spec, rotation keys act in flight only in frames that end by this (ticks)
MaxTurnTime == 50
\* rotation keys act in flight only while |angle| stays within this (degrees)
MaxAngle == 90
\* in SpecLive, rotation keys act in frames that end by this (ticks)
MaxLiveTurnTime == 300
\* SpecBurn runs frames until the pad timer reaches this (ticks)
MaxBurnTime == 100
\* whole turns by which the landing claim lets two angles differ
MaxTurns == 3

\* frame lengths clock.tick may return, in ticks: Spec, SpecLive, SpecBurn
DtSet == {50}

DtLive == {100}

DtBurn == {10, 20, 50, 100}

\* pad centres random.randint may draw
PadXs == {120, 480}

\* the three lifetimes one emit_thruster_particles call may draw
LifetimeDraws == {<<30, 30, 30>>, <<50, 60, 45>>}

BurnDraws == {<<50, 60, 45>>}

\* key sets pygame.key.get_pressed may return
KeyCombos == { {}, {"LEFT"}, {"a"}, {"RIGHT"}, {"d"}, {"UP"}, {"w"}, {"SPACE"},
               {"LEFT", "RIGHT"}, {"a", "SPACE"}, {"d", "UP"},
               {"LEFT", "d", "w"} }

-----------------------------------------------------------------------------
(* Arithmetic helpers *)

Abs(n) == IF n < 0 THEN -n ELSE n

Max(a, b) == IF a >= b THEN a ELSE b

Min(a, b) == IF a <= b THEN a ELSE b

\* int(x) of a float: truncation toward zero
Trunc(n, scale) == IF n >= 0 THEN n \div scale ELSE -((-n) \div scale)

\* nearest integer to n / scale
RoundDiv(n, scale) ==
    IF n >= 0 THEN (n + scale \div 2) \div scale
    ELSE -((-n + scale \div 2) \div scale)

\* 10000 * sin(9k degrees), k = 0..10
SinTable == <<0, 1564, 3090, 4540, 5878, 7071, 8090, 8910, 9511, 9877, 10000>>

SinUnit == SinTable[11]

\* math.sin of an angle that is a multiple of 9 degrees, times SinUnit
Sin(a) ==
    LET m == (a % (360 * AngleScale)) \div (9 * AngleScale)
    IN  IF m <= 10 THEN SinTable[m + 1]
        ELSE IF m <= 20 THEN SinTable[21 - m]
        ELSE IF m <= 30 THEN -SinTable[m - 19]
        ELSE -SinTable[41 - m]

Cos(a) == Sin(a + 90 * AngleScale)

\* pygame.Vector2.rotate: counter-clockwise by a
Rotate(v, a) ==
    [x |-> RoundDiv(v.x * Cos(a) - v.y * Sin(a), SinUnit),
     y |-> RoundDiv(v.x * Sin(a) + v.y * Cos(a), SinUnit)]

-----------------------------------------------------------------------------
(* pygame.Rect *)

\* Rect(0, 0, w, h) with rect.center = (cx, cy)
RectCentered(w, h, cx, cy) ==
    [x |-> cx - w \div 2, y |-> cy - h \div 2, w |-> w, h |-> h]

\* Rect.inflate(dx, dy)
Inflate(r, dx, dy) ==
    [x |-> r.x - dx \div 2, y |-> r.y - dy \div 2, w |-> r.w + dx, h |-> r.h + dy]

\* Rect.colliderect
CollideRect(a, b) ==
    /\ a.x < b.x + b.w
    /\ a.y < b.y + b.h
    /\ a.x + a.w > b.x
    /\ a.y + a.h > b.y

-----------------------------------------------------------------------------
(* LandingPad *)

PadXLow == landing_pad_width \div 2 + pad_margin

PadXHigh == screen_width - landing_pad_width \div 2 - pad_margin

\* LandingPad.__init__ with x the value random.randint returned
NewLandingPad(x) ==
    [rect  |-> RectCentered(landing_pad_width, landing_pad_height, x,
                            screen_height - landing_pad_height * 6),
     timer |-> 0]

-----------------------------------------------------------------------------
(* Particle *)

\* Particle(..., lifetime=l, ...); position, velocity, size and colour are
\* read by draw only and are not modelled
NewParticle(l) == [lifetime |-> l]

\* faulty variant of Particle.update: `return self.lifetime >= 0`
Particle_update_inclusive(p, d) ==
    LET q == [p EXCEPT !.lifetime = @ - d]
    IN  [particle |-> q, alive |-> q.lifetime >= 0]

\* Particle.update: the particle after the call, and the value returned
Particle_update(p, d) ==
    LET q == [p EXCEPT !.lifetime = @ - d]
    IN  [particle |-> q, alive |-> q.lifetime > 0]

-----------------------------------------------------------------------------
(* Lander *)

\* Lander.__init__
NewLander(x, y) ==
    [position     |-> [x |-> x * PosScale, y |-> y * PosScale],
     velocity     |-> [x |-> 0, y |-> 0],
     angle        |-> 0,
     fuel         |-> fuel_capacity * FuelScale,
     thrusting    |-> FALSE,
     particles    |-> <<>>,
     status       |-> "flying",
     status_timer |-> 0]

\* faulty variant of Lander.reset: the particle list is kept
reset_partial(x, y) == [NewLander(x, y) EXCEPT !.particles = particles]

\* Lander.reset
reset(x, y) == NewLander(x, y)

KeyLeft(keys) == "LEFT" \in keys \/ "a" \in keys

KeyRight(keys) == "RIGHT" \in keys \/ "d" \in keys

KeyThrust(keys) == "UP" \in keys \/ "w" \in keys \/ "SPACE" \in keys

\* rotation_speed * dt
RotationStep(d) == (rotation_speed * AngleScale * d) \div TicksPerSecond

\* Lander.handle_input while flying
steer(self, keys, d) ==
    LET a1 == IF KeyLeft(keys) THEN self.angle + RotationStep(d) ELSE self.angle
        a2 == IF KeyRight(keys) THEN a1 - RotationStep(d) ELSE a1
    IN  [self EXCEPT !.angle = a2,
                     !.thrusting = KeyThrust(keys) /\ self.fuel > 0]

\* faulty variant of Lander.handle_input: no early return
handle_input_unguarded(self, keys, d) == steer(self, keys, d)

\* Lander.handle_input
handle_input(self, keys, d) ==
    IF self.status # "flying" THEN [self EXCEPT !.thrusting = FALSE]
    ELSE steer(self, keys, d)

\* Lander.emit_thruster_particles: draw holds the lifetimes random.uniform returned
emit_thruster_particles(ps, draw) ==
    ps \o [i \in 1..particles_per_emit |-> NewParticle(draw[i])]

\* Lander.update_particles
update_particles(ps, d) ==
    LET stepped == [i \in 1..Len(ps) |-> Particle_update(ps[i], d)]
        kept    == SelectSeq(stepped, LAMBDA r : r.alive)
    IN  [i \in 1..Len(kept) |-> kept[i].particle]

\* `if self.thrusting and self.fuel > 0`
thrust_applied(self) == self.thrusting /\ self.fuel > 0

\* Vector2(0, -thrust_force).rotate(-self.angle)
thrust_vector(self) ==
    Rotate([x |-> 0, y |-> -(thrust_force * AccScale)], -self.angle)

\* faulty variant of the acceleration: thrust replaces gravity
acceleration_thrust_only(self) ==
    IF thrust_applied(self)
    THEN [x |-> thrust_vector(self).x, y |-> thrust_vector(self).y]
    ELSE [x |-> 0, y |-> gravity * AccScale]

\* gravity, plus the thrust vector when thrust is applied
acceleration(self) ==
    IF thrust_applied(self)
    THEN [x |-> thrust_vector(self).x,
          y |-> gravity * AccScale + thrust_vector(self).y]
    ELSE [x |-> 0, y |-> gravity * AccScale]

\* faulty variant of the fuel burn: no floor at 0
burn_unfloored(f, d) == f - fuel_burn_rate * d

\* max(0.0, fuel - fuel_burn_rate * dt)
burn(f, d) == Max(0, f - fuel_burn_rate * d)

\* max(40, min(width - 40, x))
clamp_x(x) ==
    Max(edge_margin * PosScale, Min((screen_width - edge_margin) * PosScale, x))

\* velocity += acceleration * dt; position += velocity * dt; the clamp
integrate(self, d) ==
    LET vel == [x |-> self.velocity.x + acceleration(self).x * d,
                y |-> self.velocity.y + acceleration(self).y * d]
    IN  [velocity |-> vel,
         position |-> [x |-> clamp_x(self.position.x + vel.x * d),
                       y |-> self.position.y + vel.y * d]]

\* Lander.update while flying
fly(self, d, draw) ==
    LET applied == thrust_applied(self)
        emitted == IF applied THEN emit_thruster_particles(self.particles, draw)
                   ELSE self.particles
        moved   == integrate(self, d)
    IN  [position     |-> moved.position,
         velocity     |-> moved.velocity,
         angle        |-> self.angle,
         fuel         |-> IF applied THEN burn(self.fuel, d) ELSE self.fuel,
         thrusting    |-> applied,
         particles    |-> update_particles(emitted, d),
         status       |-> IF moved.position.y > (screen_height + bottom_margin) * PosScale
                          THEN "crashed" ELSE self.status,
         status_timer |-> self.status_timer]

\* faulty variant of Lander.update: no early return
update_unfrozen(self, d, draw) == fly(self, d, draw)

\* Lander.update
update(self, d, draw) ==
    IF self.status # "flying" THEN [self EXCEPT !.status_timer = @ + d]
    ELSE fly(self, d, draw)

\* the 42x42 box of check_landing, centred on the truncated position
lander_rect(self) ==
    RectCentered(lander_box, lander_box,
                 Trunc(self.position.x, PosScale), Trunc(self.position.y, PosScale))

\* the condition under which check_landing evaluates a landing
touches_pad(self, pad) ==
    /\ lander_rect(self).y + lander_box >= pad.rect.y
    /\ CollideRect(lander_rect(self), Inflate(pad.rect, inflate_x, inflate_y))

\* faulty variant of the normalisation: abs(angle % 360)
angle_delta_unshifted(a) == Abs(a % (360 * AngleScale))

\* abs((angle + 180) % 360 - 180)
angle_delta(a) ==
    Abs(((a + 180 * AngleScale) % (360 * AngleScale)) - 180 * AngleScale)

\* the landing evaluated on a qualifying overlap
evaluate_landing(self, pad) ==
    IF touches_pad(self, pad)
    THEN LET soft == /\ Abs(self.velocity.y) <= max_landing_speed * VelScale
                     /\ Abs(self.velocity.x) <= max_horizontal_speed * VelScale
                     /\ angle_delta(self.angle) <= max_landing_angle * AngleScale
         IN  [self EXCEPT !.status = IF soft THEN "landed" ELSE "crashed",
                          !.status_timer = 0]
    ELSE self

\* faulty variant of Lander.check_landing: no early return
check_landing_unguarded(self, pad) == evaluate_landing(self, pad)

\* Lander.check_landing
check_landing(self, pad) ==
    IF self.status # "flying" THEN self ELSE evaluate_landing(self, pad)

-----------------------------------------------------------------------------
(* run_game *)

\* LandingPad.update
pad_update(pad, d) == [pad EXCEPT !.timer = @ + d]

\* faulty variant of the thrust-sound block: the fuel is not looked at
thrust_sound_ignoring_fuel(sound, channel, loops, self) ==
    IF ~sound THEN [channel |-> channel, loops |-> loops]
    ELSE IF self.thrusting /\ self.status = "flying"
    THEN IF channel = "None"
         THEN [channel |-> "Channel", loops |-> loops + 1]
         ELSE [channel |-> channel, loops |-> loops]
    ELSE IF channel # "None"
         THEN [channel |-> "None", loops |-> loops - 1]
         ELSE [channel |-> channel, loops |-> loops]

\* the thrust-sound block of the loop: the channel handle and the mixer after
\* it.  A held channel loops forever, so get_busy() is true of it; a channel
\* sent fadeout(120) counts as stopped from that call on.
thrust_sound(sound, channel, loops, self) ==
    IF ~sound THEN [channel |-> channel, loops |-> loops]
    ELSE IF self.thrusting /\ self.status = "flying" /\ self.fuel > 0
    THEN IF channel = "None"
         THEN [channel |-> "Channel", loops |-> loops + 1]
         ELSE [channel |-> channel, loops |-> loops]
    ELSE IF channel # "None"
         THEN [channel |-> "None", loops |-> loops - 1]
         ELSE [channel |-> channel, loops |-> loops]

Self ==
    [position     |-> position,
     velocity     |-> velocity,
     angle        |-> angle,
     fuel         |-> fuel,
     thrusting    |-> thrusting,
     particles    |-> particles,
     status       |-> status,
     status_timer |-> status_timer]

SetLander(s) ==
    /\ position' = s.position
    /\ velocity' = s.velocity
    /\ angle' = s.angle
    /\ fuel' = s.fuel
    /\ thrusting' = s.thrusting
    /\ particles' = s.particles
    /\ status' = s.status
    /\ status_timer' = s.status_timer

\* the ledger after one update call of length d
AgeLedger(entries, d, flying) ==
    [i \in 1..Len(entries) |->
        [entries[i] EXCEPT !.since = @ + d,
                           !.flown = IF flying THEN @ + d ELSE @]]

Init ==
    /\ pc = "tick"
    /\ dt = 0
    /\ position = NewLander(start_x, start_y).position
    /\ velocity = NewLander(start_x, start_y).velocity
    /\ angle = NewLander(start_x, start_y).angle
    /\ fuel = NewLander(start_x, start_y).fuel
    /\ thrusting = NewLander(start_x, start_y).thrusting
    /\ particles = NewLander(start_x, start_y).particles
    /\ status = NewLander(start_x, start_y).status
    /\ status_timer = NewLander(start_x, start_y).status_timer
    /\ \E x \in PadXs : x \in PadXLow..PadXHigh /\ landing_pad = NewLandingPad(x)
    /\ thruster_sound \in BOOLEAN
    /\ thruster_channel = "None"
    /\ mixer_loops = 0
    /\ spawned = 0 /\ expired = 0 /\ ledger = <<>> /\ full_burn = TRUE

\* faulty variant of the tick: dt = clock.tick(target_fps) // 1000000
TickStalled(dts) ==
    /\ pc = "tick"
    /\ \E d \in dts :
          /\ status = "flying" \/ status_timer + d <= MaxStatusTimer
          /\ dt' = d \div 1000000
    /\ pc' = "events"
    /\ UNCHANGED <<lander, landing_pad, thruster_sound, thruster_channel,
                   mixer_loops, history>>

\* dt = clock.tick(target_fps) / 1000.0
Tick(dts) ==
    /\ pc = "tick"
    /\ \E d \in dts :
          /\ status = "flying" \/ status_timer + d <= MaxStatusTimer
          /\ dt' = d
    /\ pc' = "events"
    /\ UNCHANGED <<lander, landing_pad, thruster_sound, thruster_channel,
                   mixer_loops, history>>

\* event KEYDOWN K_r
ResetEvent ==
    /\ pc = "events"
    /\ SetLander(reset(start_x, start_y))
    /\ \E x \in PadXs : x \in PadXLow..PadXHigh /\ landing_pad' = NewLandingPad(x)
    /\ spawned' = 0 /\ expired' = 0 /\ ledger' = <<>> /\ full_burn' = TRUE
    /\ UNCHANGED <<pc, dt, thruster_sound, thruster_channel, mixer_loops>>

\* event QUIT: pygame.quit() stops the mixer, sys.exit() ends the loop
QuitEvent ==
    /\ pc = "events"
    /\ pc' = "exit"
    /\ mixer_loops' = 0
    /\ UNCHANGED <<dt, lander, landing_pad, thruster_sound, thruster_channel, history>>

\* the event queue is empty
EventsDone ==
    /\ pc = "events"
    /\ pc' = "input"
    /\ UNCHANGED <<dt, lander, landing_pad, thruster_sound, thruster_channel,
                   mixer_loops, history>>

\* keys = pygame.key.get_pressed(); lander.handle_input(keys, dt)
\* (a frame whose keys turn the lander is drawn only if it ends by `window`
\* and leaves the angle within MaxAngle)
HandleInput(combos, window) ==
    /\ pc = "input"
    /\ \E keys \in combos :
          LET s == handle_input(Self, keys, dt)
          IN  /\ s.angle # angle =>
                    /\ landing_pad.timer + dt <= window
                    /\ Abs(s.angle) <= MaxAngle * AngleScale
              /\ SetLander(s)
    /\ pc' = "update"
    /\ UNCHANGED <<dt, landing_pad, thruster_sound, thruster_channel, mixer_loops,
                   history>>

\* lander.update(dt)
Update(draws) ==
    /\ pc = "update"
    /\ \E draw \in draws :
          LET flying  == status = "flying"
              applied == flying /\ thrusting /\ fuel > 0
              fresh   == IF applied
                         THEN [i \in 1..Len(draw) |->
                                 [initial |-> draw[i], since |-> 0, flown |-> 0]]
                         ELSE <<>>
              aged    == AgeLedger(ledger \o fresh, dt, flying)
              open    == SelectSeq(aged, LAMBDA e : e.initial > e.flown)
          IN  /\ \A i \in 1..Len(draw) : draw[i] \in lifetime_min..lifetime_max
              /\ (~applied) => draw = CHOOSE d \in draws : TRUE
              /\ SetLander(update(Self, dt, draw))
              /\ spawned' = spawned + Len(fresh)
              /\ expired' = expired + (Len(aged) - Len(open))
              /\ ledger' = open
              /\ full_burn' = (full_burn /\ (flying => applied /\ angle = 0))
    /\ pc' = "landing"
    /\ UNCHANGED <<dt, landing_pad, thruster_sound, thruster_channel, mixer_loops>>

\* lander.check_landing(landing_pad)
CheckLanding ==
    /\ pc = "landing"
    /\ SetLander(check_landing(Self, landing_pad))
    /\ pc' = "pad"
    /\ UNCHANGED <<dt, landing_pad, thruster_sound, thruster_channel, mixer_loops,
                   history>>

\* landing_pad.update(dt)
PadUpdate ==
    /\ pc = "pad"
    /\ landing_pad' = pad_update(landing_pad, dt)
    /\ pc' = "audio"
    /\ UNCHANGED <<dt, lander, thruster_sound, thruster_channel, mixer_loops, history>>

\* if thruster_sound: ...
ThrustSound ==
    /\ pc = "audio"
    /\ LET r == thrust_sound(thruster_sound, thruster_channel, mixer_loops, Self)
       IN  /\ thruster_channel' = r.channel
           /\ mixer_loops' = r.loops
    /\ pc' = "tick"
    /\ UNCHANGED <<dt, lander, landing_pad, thruster_sound, history>>

Next ==
    \/ Tick(DtSet)
    \/ ResetEvent
    \/ QuitEvent
    \/ EventsDone
    \/ HandleInput(KeyCombos, MaxTurnTime)
    \/ Update(LifetimeDraws)
    \/ CheckLanding
    \/ PadUpdate
    \/ ThrustSound

Spec == Init /\ [][Next]_vars

-----------------------------------------------------------------------------
(* SpecLive: one episode, no reset and no quit; the loop never stops, so   *)
(* its steps are weakly fair.  Frames of one second, any keys in any       *)
(* frame, turning in the frames that end by MaxLiveTurnTime.               *)

InitLive ==
    /\ Init
    /\ thruster_sound
    /\ landing_pad = NewLandingPad(start_x)

Flight ==
    \/ Tick(DtLive)
    \/ EventsDone
    \/ HandleInput(KeyCombos, MaxLiveTurnTime)
    \/ Update(LifetimeDraws)
    \/ CheckLanding
    \/ PadUpdate
    \/ ThrustSound

SpecLive == InitLive /\ [][Flight]_vars /\ WF_vars(Flight)

-----------------------------------------------------------------------------
(* SpecBurn: the first MaxBurnTime ticks of an episode in frames of mixed  *)
(* lengths, the angle held at 0.                                           *)

Burn ==
    \/ (Tick(DtBurn) /\ landing_pad.timer + dt' <= MaxBurnTime)
    \/ EventsDone
    \/ HandleInput(KeyCombos, 0)
    \/ Update(BurnDraws)
    \/ CheckLanding
    \/ PadUpdate
    \/ ThrustSound

SpecBurn == Init /\ [][Burn]_vars

-----------------------------------------------------------------------------
(* SpecLanding: check_landing applied to landers in flight around the pad: *)
(* positions on both sides of each edge of the qualifying region, speeds   *)
(* on both sides of each threshold, angles on both sides of the threshold  *)
(* in several turns.                                                       *)

ApproachXs == {start_x * PosScale, 358 * PosScale + 99999, 359 * PosScale,
               601 * PosScale + 99999, 602 * PosScale}

ApproachYs == {620 * PosScale + 99999, 621 * PosScale, 650 * PosScale + 40000,
               680 * PosScale + 99999, 681 * PosScale}

ApproachVxs == {0, 32 * VelScale, 32 * VelScale + 1, -32 * VelScale,
                -(32 * VelScale) - 1}

ApproachVys == {0, 20 * VelScale, 42 * VelScale, 42 * VelScale + 1,
                -42 * VelScale, -(42 * VelScale) - 1}

ApproachAngles == {0, 120, 121, -120, -121, 1800, -1800, 3470, 3480, 3500,
                   3600, 3720, 3721, -3500, -3721, 7100, 10700}

InitLanding ==
    /\ pc = "landing"
    /\ dt \in DtSet
    /\ position \in [x : ApproachXs, y : ApproachYs]
    /\ velocity \in [x : ApproachVxs, y : ApproachVys]
    /\ angle \in ApproachAngles
    /\ fuel = (fuel_capacity * FuelScale) \div 2
    /\ thrusting = FALSE
    /\ particles = <<>>
    /\ status = "flying"
    /\ status_timer = 0
    /\ landing_pad = [NewLandingPad(start_x) EXCEPT !.timer = 10 * TicksPerSecond]
    /\ thruster_sound = TRUE
    /\ thruster_channel = "None"
    /\ mixer_loops = 0
    /\ spawned = 0 /\ expired = 0 /\ ledger = <<>> /\ full_burn = FALSE

Landing == CheckLanding

SpecLanding == InitLanding /\ [][Landing]_vars

-----------------------------------------------------------------------------
(* Properties *)

\* a step of ResetEvent (or a step that leaves everything as it is)
ResetStep == pc = "events" /\ pc' = "events"

FrameSteps == {"input", "update", "landing", "pad", "audio"}

Terminal == {"landed", "crashed"}

\* C1: without a reset the only status changes are flying -> landed and
\* flying -> crashed; a terminal status never changes again, and
\* check_landing on a terminal lander assigns nothing (neither the status nor
\* the status timer it sets on a landing), so it assigns at most once per
\* episode.
StatusOneWay ==
    [][(~ResetStep) =>
          /\ (status' # status) => (status = "flying" /\ status' \in Terminal)
          /\ (pc = "landing" /\ status # "flying") =>
                UNCHANGED <<status, status_timer>>]_vars

\* check_landing has been called again on a lander that had landed earlier
LandedCheckedAgain == pc = "pad" /\ status = "landed" /\ status_timer > 0

\* C2: in every step of a frame taken with status landed or crashed,
\* position, velocity, angle, fuel and the particles stay as they are, and
\* Lander.update adds dt to status_timer and changes nothing else.
TerminalFrameFrozen ==
    [][(status # "flying" /\ pc \in FrameSteps) =>
          /\ UNCHANGED <<position, velocity, angle, fuel, particles>>
          /\ (pc = "update") =>
                /\ status_timer' = status_timer + dt
                /\ UNCHANGED <<thrusting, status>>]_vars

\* update has run on a crashed lander that is moving and has live particles
CrashedFrameUpdated ==
    /\ pc = "landing"
    /\ status = "crashed"
    /\ status_timer > 0
    /\ particles # <<>>
    /\ velocity.y # 0

\* C3: 0 <= fuel <= fuel_capacity always; an update made while flying with
\* thrust armed and fuel > 0 sets fuel' = max(0, fuel - fuel_burn_rate*dt),
\* a reset sets fuel' = fuel_capacity, every other step leaves fuel alone.
FuelLaw ==
    /\ [](fuel >= 0 /\ fuel <= fuel_capacity * FuelScale)
    /\ [][fuel' =
            IF ResetStep THEN fuel_capacity * FuelScale
            ELSE IF pc = "update" /\ status = "flying" /\ thrusting /\ fuel > 0
            THEN (IF fuel >= fuel_burn_rate * dt THEN fuel - fuel_burn_rate * dt
                  ELSE 0)
            ELSE fuel]_vars

\* a thrust update has just emptied the tank (the floor at 0 applied)
TankEmptied ==
    pc = "landing" /\ status = "flying" /\ thrusting /\ fuel = 0

\* the 42x42 box around the lander reaches the top of the pad and overlaps
\* the pad widened by 40 and heightened by 12
QualifyingOverlap ==
    LET cx     == Trunc(position.x, PosScale)
        cy     == Trunc(position.y, PosScale)
        left   == cx - 21
        top    == cy - 21
        right  == left + 42
        bottom == top + 42
        pad    == landing_pad.rect
    IN  /\ bottom >= pad.y
        /\ left < pad.x + pad.w + 20
        /\ right > pad.x - 20
        /\ top < pad.y + pad.h + 6
        /\ bottom > pad.y - 6

\* the angle is within `limit` of a whole number of turns
NearUpright(a, limit) ==
    \E k \in -MaxTurns..MaxTurns : Abs(a - k * 360 * AngleScale) <= limit

\* C4: check_landing on a flying lander sets landed iff there is a qualifying
\* overlap, |velocity.y| <= max_landing_speed, |velocity.x| <=
\* max_horizontal_speed and the angle is within max_landing_angle of a whole
\* number of turns; crashed on a qualifying overlap otherwise; and leaves
\* the status flying without a qualifying overlap.
LandingClassified ==
    [][(pc = "landing" /\ status = "flying") =>
          status' =
            IF ~QualifyingOverlap THEN "flying"
            ELSE IF /\ Abs(velocity.y) <= max_landing_speed * VelScale
                    /\ Abs(velocity.x) <= max_horizontal_speed * VelScale
                    /\ NearUpright(angle, max_landing_angle * AngleScale)
                 THEN "landed"
                 ELSE "crashed"]_vars

\* a lander at 350 degrees has landed
LandedAt350 == pc = "pad" /\ status = "landed" /\ angle = 350 * AngleScale

\* C5: right after a reset the lander is flying at the start position with
\* full fuel, zero velocity, angle 0, status timer 0, thrusting off and no
\* particles, and the pad is a newly generated one with its timer at 0.
ResetRestores ==
    [][ResetStep =>
          /\ status' = "flying"
          /\ fuel' = fuel_capacity * FuelScale
          /\ velocity' = [x |-> 0, y |-> 0]
          /\ angle' = 0
          /\ status_timer' = 0
          /\ thrusting' = FALSE
          /\ position' = [x |-> 480 * PosScale, y |-> 140 * PosScale]
          /\ particles' = <<>>
          /\ landing_pad'.timer = 0
          /\ \E x \in 120..840 :
                landing_pad'.rect = [x |-> x - 80, y |-> 642, w |-> 160, h |-> 12]]_vars

\* a reset has been made in a frame that follows a frame of powered flight
\* (the thrust sound of the episode before is still on)
ResetInPoweredFlight ==
    /\ pc = "events"
    /\ landing_pad.timer = 0
    /\ thruster_channel = "Channel"
    /\ status = "flying"
    /\ fuel = fuel_capacity * FuelScale
    /\ particles = <<>>

\* emitted particles whose initial lifetime is <= the dt summed over all
\* update calls since (and including) the call that emitted them
ElapsedOverAllUpdates ==
    expired + Cardinality({i \in 1..Len(ledger) : ledger[i].initial <= ledger[i].since})

\* emitted particles whose initial lifetime is <= the dt summed over the
\* update calls made while flying since (and including) the emitting call
ElapsedOverFlyingUpdates ==
    expired + Cardinality({i \in 1..Len(ledger) : ledger[i].initial <= ledger[i].flown})

NoDeadParticle == \A i \in 1..Len(particles) : particles[i].lifetime > 0

\* C6 as stated: the particle count is the number emitted minus the number
\* whose lifetime has elapsed over all update calls, and no particle in the
\* collection has lifetime <= 0.
ParticleCountAllUpdates ==
    /\ Len(particles) = spawned - ElapsedOverAllUpdates
    /\ NoDeadParticle

\* C6 as amended: the same with the dt summed over the update calls made
\* while the lander was flying.
ParticleCountFlyingUpdates ==
    /\ Len(particles) = spawned - ElapsedOverFlyingUpdates
    /\ NoDeadParticle

\* particles are still in the collection after a terminal lander has been
\* updated for longer than any particle lifetime
ParticlesOutliveLifetime ==
    /\ status # "flying"
    /\ status_timer > lifetime_max
    /\ particles # <<>>
    /\ expired > 0

\* C7: after one second of frames that all applied thrust at angle 0 the
\* velocity is (0, gravity - thrust_force); each flying update adds
\* (gravity - thrust_force)*dt to velocity.y when it applies thrust at angle
\* 0 and gravity*dt when it applies none, leaves velocity.x alone in both
\* cases, and moves position.y by the new velocity.y times dt.
BurnVelocity ==
    /\ [](pc = "tick" /\ full_burn /\ landing_pad.timer = TicksPerSecond =>
             velocity = [x |-> 0, y |-> (36 - 120) * VelScale])
    /\ [][(pc = "update" /\ status = "flying") =>
             /\ (thrusting /\ fuel > 0 /\ angle = 0) =>
                   /\ velocity'.y = velocity.y + (gravity - thrust_force) * AccScale * dt
                   /\ velocity'.x = velocity.x
             /\ (~(thrusting /\ fuel > 0)) =>
                   /\ velocity'.y = velocity.y + gravity * AccScale * dt
                   /\ velocity'.x = velocity.x
             /\ position'.y = position.y + velocity'.y * dt]_vars

\* one second of thrust at angle 0 has passed, the last frame a short one
BurnedOneSecond ==
    /\ pc = "tick"
    /\ full_burn
    /\ landing_pad.timer = TicksPerSecond
    /\ dt = 20

\* C8 as stated: handle_input on a landed or crashed lander changes no
\* field of the lander.
HandleInputNoOp ==
    [][(pc = "input" /\ status # "flying") => UNCHANGED lander]_vars

\* C8 as amended: handle_input on a landed or crashed lander clears
\* thrusting and changes no other field of the lander.
HandleInputClearsThrusting ==
    [][(pc = "input" /\ status # "flying") =>
          /\ thrusting' = FALSE
          /\ UNCHANGED <<position, velocity, angle, fuel, particles, status,
                         status_timer>>]_vars

\* handle_input has run in the first frame after a frame that applied
\* thrust and ended landed or crashed
InputAfterPoweredTouchdown ==
    /\ pc = "update"
    /\ status # "flying"
    /\ status_timer = 0
    /\ ~thrusting
    /\ ledger # <<>>
    /\ ledger[Len(ledger)].since = dt

\* the condition under which the loop keeps the thrust sound on
SoundWanted == thrusting /\ status = "flying" /\ fuel > 0

EpisodeEnds == (status = "flying") ~> (status \in Terminal)

\* the lander has burnt all its fuel and then fallen off the bottom
FellOffAfterBurnout ==
    /\ status = "crashed"
    /\ fuel = 0
    /\ position.y > (screen_height + bottom_margin) * PosScale

====
